---- MODULE Spec2Model ----
(***************************************************************************)
(* Cluely-Lite local agent server (python/src/server.py).                  *)
(*                                                                         *)
(* Python values are tagged records: PNone, PStr, PInt, PBool, PList,      *)
(* PDict (a dict is a function from its keys to values).  Strings are      *)
(* TLA+ strings, handled character by character with SubSeq, Len and \o.   *)
(***************************************************************************)
EXTENDS Integers, Sequences, FiniteSets, TLC

VARIABLES
    server_state, \* the settings: [ollama_url, ollama_model]
    pc,         \* per thread: where it is in its request
    req,        \* per thread: the request it is handling
    loc,        \* per thread: the handler's locals model, url and updated
    sent,       \* per thread: the model name and url of its request to the model service
    reply,      \* per thread: the reply written, or how the call ended
    vt_pc,      \* validate_tool call: "call" before, "done" after, "off" elsewhere
    vt_arg,     \* the value as it was when validate_tool was called
    vt_obj,     \* the same Python object, as it is now (validate_tool writes to it)
    vt_ret,     \* validate_tool's return value
    pj_pc,      \* parse_tool_json call: "call" before, "done" after, "off" elsewhere
    pj_text,    \* the raw model output given to parse_tool_json
    pj_ret,     \* parse_tool_json's return value: a tool dict or None
    nz_pc,      \* normalize_tool_with_snapshot call: "call", "done", "off" elsewhere
    nz_arg,     \* the tool as it was when the normalizer was called
    nz_tool,    \* the same tool object, as it is now; the normalizer returns it
    nz_snap,    \* the snapshot given to the normalizer
    nz_ins,     \* the instruction given to the normalizer
    nz_err,     \* whether the normalizer's except clause swallowed an error
    pl_pc,      \* plan_action call: "query", "heuristic", "fallback", "normalize",
                \* "done" (returned), "raised" (an exception left it), "off" elsewhere
    pl_ins,     \* plan_action's instruction
    pl_snap,    \* plan_action's snapshot
    pl_outcome, \* what the model service does with the call's request
    pl_tool,    \* plan_action's local tool: the model's tool, or None
    pl_err,     \* plan_action's local tool_error
    pl_heur,    \* plan_action's local heuristic: the heuristic tool, or None
    pl_result,  \* the PlanResult returned
    pl_raised,  \* the exception that left plan_action, "" when none
    pl_trace    \* the stages of plan_action that have run, in order

vtVars == <<vt_pc, vt_arg, vt_obj, vt_ret>>
pjVars == <<pj_pc, pj_text, pj_ret>>
nzVars == <<nz_pc, nz_arg, nz_tool, nz_snap, nz_ins, nz_err>>

plVars == <<pl_pc, pl_ins, pl_snap, pl_outcome, pl_tool, pl_err, pl_heur, pl_result,
            pl_raised, pl_trace>>

srvVars == <<server_state, pc, req, loc, sent, reply>>

\* the variables of the calls of single functions
fnVars == <<vtVars, pjVars, nzVars, plVars>>

vars == <<srvVars, vtVars, pjVars, nzVars, plVars>>

-----------------------------------------------------------------------------
(* Bounds *)

\* integers that appear as JSON numbers are 0..MaxIntVal
MaxIntVal == 11

\* a model output is at most MaxPieces fragments long
MaxPieces == 3

\* a snapshot given to the normalizer has at most MaxNodes nodes
MaxNodes == 2

\* the server runs at most NThreads requests at a time
NThreads == 2

-----------------------------------------------------------------------------
(* Python strings *)

Char(s, i) == SubSeq(s, i, i)

\* the whitespace characters of the model's alphabet (str.strip() with no argument)
WS == {" ", "\t", "\n"}

UPPER == "ABCDEFGHIJKLMNOPQRSTUVWXYZ"
LOWER == "abcdefghijklmnopqrstuvwxyz"
DIGITS == "0123456789"

LowerChar(c) ==
    IF \E i \in 1..Len(UPPER) : Char(UPPER, i) = c
    THEN Char(LOWER, CHOOSE i \in 1..Len(UPPER) : Char(UPPER, i) = c)
    ELSE c

Min(S) == CHOOSE x \in S : \A y \in S : x <= y
Max(S) == CHOOSE x \in S : \A y \in S : x >= y

\* str.lower(), on the two halves of the string in turn
RECURSIVE Lower(_)
Lower(s) ==
    IF Len(s) = 0 THEN ""
    ELSE IF Len(s) = 1 THEN LowerChar(s)
    ELSE Lower(SubSeq(s, 1, Len(s) \div 2)) \o Lower(SubSeq(s, (Len(s) \div 2) + 1, Len(s)))

\* index of the first character at or after i that is not in chars; past the
\* end when there is none
SkipChars(s, i, chars) ==
    Min({ k \in i..Len(s) : Char(s, k) \notin chars } \cup { Max({i, Len(s) + 1}) })

\* index of the first character at or after i that is in chars; past the end
\* when there is none
SkipToChars(s, i, chars) ==
    Min({ k \in i..Len(s) : Char(s, k) \in chars } \cup { Max({i, Len(s) + 1}) })

\* str.strip(chars)
StripChars(s, chars) ==
    SubSeq(s, SkipChars(s, 1, chars),
           Max({ k \in 1..Len(s) : Char(s, k) \notin chars } \cup {0}))

\* str.strip()
Strip(s) == StripChars(s, WS)

\* decimal digits of a natural number
RECURSIVE NatStr(_)
NatStr(n) ==
    IF n < 10 THEN Char(DIGITS, n + 1)
    ELSE NatStr(n \div 10) \o Char(DIGITS, (n % 10) + 1)

IntStr(n) == IF n < 0 THEN "-" \o NatStr(0 - n) ELSE NatStr(n)

-----------------------------------------------------------------------------
(* Python values *)

PNone == [t |-> "none"]
PStr(s) == [t |-> "str", s |-> s]
PInt(n) == [t |-> "int", n |-> n]
PBool(b) == [t |-> "bool", b |-> b]
PList(items) == [t |-> "list", items |-> items]
PDict(d) == [t |-> "dict", d |-> d]

EmptyDict == <<>>

\* key in d
HasKey(d, k) == k \in DOMAIN d

\* d.get(k): None when the key is missing
DictGet(d, k) == IF HasKey(d, k) THEN d[k] ELSE PNone

\* d.get(k, default)
DictGetDefault(d, k, default) == IF HasKey(d, k) THEN d[k] ELSE default

\* d[k] = v
DictSet(d, k, v) == [x \in (DOMAIN d) \cup {k} |-> IF x = k THEN v ELSE d[x]]

\* str(v) and repr(v).  A dict with two or more keys has no str() here: its
\* rendering depends on insertion order, which a function does not keep.
RECURSIVE PyStr(_)
RECURSIVE PyRepr(_)
RECURSIVE ReprItems(_)

ReprItems(items) ==
    IF Len(items) = 0 THEN ""
    ELSE IF Len(items) = 1 THEN PyRepr(items[1])
    ELSE PyRepr(items[1]) \o ", " \o ReprItems(Tail(items))

PyRepr(v) == IF v.t = "str" THEN "'" \o v.s \o "'" ELSE PyStr(v)

PyStr(v) ==
    CASE v.t = "str" -> v.s
      [] v.t = "none" -> "None"
      [] v.t = "int" -> IntStr(v.n)
      [] v.t = "bool" -> (IF v.b THEN "True" ELSE "False")
      [] v.t = "list" -> "[" \o ReprItems(v.items) \o "]"
      [] v.t = "dict" /\ DOMAIN v.d = {} -> "{}"
      [] v.t = "dict" /\ Cardinality(DOMAIN v.d) = 1 ->
            LET k == CHOOSE x \in DOMAIN v.d : TRUE
            IN "{'" \o k \o "': " \o PyRepr(v.d[k]) \o "}"

\* truthiness of a value (if v:, v or default)
Truthy(v) ==
    CASE v.t = "str" -> v.s # ""
      [] v.t = "none" -> FALSE
      [] v.t = "int" -> v.n # 0
      [] v.t = "bool" -> v.b
      [] v.t = "list" -> Len(v.items) > 0
      [] v.t = "dict" -> DOMAIN v.d # {}

-----------------------------------------------------------------------------
(* validate_tool *)

ALLOWED_ACTIONS == {"answer", "click", "type", "focus"}

\* validate_tool with the normalised action stored before it is checked against
\* the allowed set
ValidateTool_WritesBeforeCheck(obj) ==
    IF obj.t # "dict" THEN [ret |-> FALSE, obj |-> obj]
    ELSE LET action == DictGet(obj.d, "action") IN
         IF action.t # "str" THEN [ret |-> FALSE, obj |-> obj]
         ELSE LET a == Strip(Lower(action.s))
                  d1 == DictSet(obj.d, "action", PStr(a))
              IN IF a \notin ALLOWED_ACTIONS THEN [ret |-> FALSE, obj |-> PDict(d1)]
                 ELSE LET d2 == DictSet(d1, "target",
                                    IF HasKey(d1, "target") /\ d1["target"].t # "none"
                                    THEN PStr(PyStr(d1["target"])) ELSE PNone)
                          d3 == DictSet(d2, "text",
                                    IF HasKey(d2, "text") /\ d2["text"].t # "none"
                                    THEN PStr(PyStr(d2["text"])) ELSE PStr(""))
                      IN [ret |-> TRUE, obj |-> PDict(d3)]

\* validate_tool with a missing target defaulted to "" like the text
ValidateTool_EmptyTarget(obj) ==
    IF obj.t # "dict" THEN [ret |-> FALSE, obj |-> obj]
    ELSE LET action == DictGet(obj.d, "action") IN
         IF action.t # "str" THEN [ret |-> FALSE, obj |-> obj]
         ELSE LET a == Strip(Lower(action.s)) IN
              IF a \notin ALLOWED_ACTIONS THEN [ret |-> FALSE, obj |-> obj]
              ELSE LET d1 == DictSet(obj.d, "action", PStr(a))
                       d2 == DictSet(d1, "target",
                                 IF HasKey(d1, "target") /\ d1["target"].t # "none"
                                 THEN PStr(PyStr(d1["target"])) ELSE PStr(""))
                       d3 == DictSet(d2, "text",
                                 IF HasKey(d2, "text") /\ d2["text"].t # "none"
                                 THEN PStr(PyStr(d2["text"])) ELSE PStr(""))
                   IN [ret |-> TRUE, obj |-> PDict(d3)]

\* validate_tool(obj): the return value and the object as the call leaves it
ValidateTool(obj) ==
    IF obj.t # "dict" THEN [ret |-> FALSE, obj |-> obj]
    ELSE LET action == DictGet(obj.d, "action") IN
         IF action.t # "str" THEN [ret |-> FALSE, obj |-> obj]
         ELSE LET a == Strip(Lower(action.s)) IN
              IF a \notin ALLOWED_ACTIONS THEN [ret |-> FALSE, obj |-> obj]
              ELSE LET d1 == DictSet(obj.d, "action", PStr(a))
                       d2 == DictSet(d1, "target",
                                 IF HasKey(d1, "target") /\ d1["target"].t # "none"
                                 THEN PStr(PyStr(d1["target"])) ELSE PNone)
                       d3 == DictSet(d2, "text",
                                 IF HasKey(d2, "text") /\ d2["text"].t # "none"
                                 THEN PStr(PyStr(d2["text"])) ELSE PStr(""))
                   IN [ret |-> TRUE, obj |-> PDict(d3)]

-----------------------------------------------------------------------------
(* json.loads on the model's alphabet: objects, arrays, strings, integers,  *)
(* null/true/false.  Each parser returns [ok, v, i]: whether it succeeded, *)
(* the value, and the index after the text it consumed.                    *)

CharAt(s, i) == IF 1 <= i /\ i <= Len(s) THEN SubSeq(s, i, i) ELSE ""

IsDigit(c) == \E i \in 1..Len(DIGITS) : Char(DIGITS, i) = c

\* characters that may not appear raw inside a JSON string
JSON_CONTROL == {"\t", "\n"}

JsonFail == [ok |-> FALSE, v |-> PNone, i |-> 0]

JsonOk(v, i) == [ok |-> TRUE, v |-> v, i |-> i]

SkipWs(s, i) == SkipChars(s, i, {" ", "\t", "\n"})

\* index of the first c at or after i, 0 when there is none (str.find, 1-based)
FindFrom(s, c, i) ==
    LET S == { k \in i..Len(s) : Char(s, k) = c } IN IF S = {} THEN 0 ELSE Min(S)

\* index of the last c at or before i, 0 when there is none (str.rfind, 1-based)
RFindFrom(s, c, i) ==
    LET S == { k \in 1..i : Char(s, k) = c } IN IF S = {} THEN 0 ELSE Max(S)

\* the rest of a string whose opening quote has been read, i being the next
\* character and acc the characters decoded so far.  The escapes of the quote,
\* the backslash, the slash, n and t are decoded; the escapes b, f, r and u do
\* not occur in the model's texts.
RECURSIVE ScanString(_, _, _)
ScanString(s, i, acc) ==
    LET j == SkipToChars(s, i, {"\"", "\\"} \cup JSON_CONTROL)
        c == CharAt(s, j)
        got == acc \o SubSeq(s, i, j - 1)
    IN
    IF c = "" \/ c \in JSON_CONTROL THEN JsonFail
    ELSE IF c = "\"" THEN JsonOk(PStr(got), j + 1)
    ELSE LET e == CharAt(s, j + 1) IN
         CASE e \in {"\"", "\\", "/"} -> ScanString(s, j + 2, got \o e)
           [] e = "n" -> ScanString(s, j + 2, got \o "\n")
           [] e = "t" -> ScanString(s, j + 2, got \o "\t")
           [] e \notin {"\"", "\\", "/", "n", "t", "b", "f", "r", "u"} -> JsonFail

\* a string starting at the double quote at i
ParseString(s, i) == ScanString(s, i + 1, "")

\* end of the run of digits starting at i
DigitsEnd(s, i) == SkipChars(s, i, { Char(DIGITS, k) : k \in 1..Len(DIGITS) })

RECURSIVE StrNat(_)
StrNat(ds) ==
    IF Len(ds) = 0 THEN 0
    ELSE 10 * StrNat(SubSeq(ds, 1, Len(ds) - 1)) + (CHOOSE n \in 0..9 : Char(DIGITS, n + 1) = Char(ds, Len(ds)))

\* an integer -?(0|[1-9][0-9]*) starting at i
ParseNumber(s, i) ==
    LET neg == CharAt(s, i) = "-"
        d == IF neg THEN i + 1 ELSE i
        e == IF CharAt(s, d) = "0" THEN d + 1 ELSE DigitsEnd(s, d)
    IN IF ~IsDigit(CharAt(s, d)) THEN JsonFail
       ELSE LET n == StrNat(SubSeq(s, d, e - 1))
            IN JsonOk(PInt(IF neg THEN 0 - n ELSE n), e)

RECURSIVE ParseValue(_, _)
RECURSIVE ParseMembers(_, _, _)
RECURSIVE ParseItems(_, _, _)

\* the items of an array, the next item starting at i
ParseItems(s, i, items) ==
    LET v == ParseValue(s, i) IN
    IF ~v.ok THEN JsonFail
    ELSE LET e == SkipWs(s, v.i)
             items2 == Append(items, v.v)
         IN IF CharAt(s, e) = "]" THEN JsonOk(PList(items2), e + 1)
            ELSE IF CharAt(s, e) = "," THEN ParseItems(s, SkipWs(s, e + 1), items2)
            ELSE JsonFail

\* an array starting at the bracket at i
ParseArray(s, i) ==
    LET j == SkipWs(s, i + 1) IN
    IF CharAt(s, j) = "]" THEN JsonOk(PList(<<>>), j + 1)
    ELSE ParseItems(s, j, <<>>)

\* the members of an object, the double quote of the next key being at i
ParseMembers(s, i, d) ==
    LET k == ParseString(s, i) IN
    IF ~k.ok THEN JsonFail
    ELSE LET c == SkipWs(s, k.i) IN
         IF CharAt(s, c) # ":" THEN JsonFail
         ELSE LET v == ParseValue(s, SkipWs(s, c + 1)) IN
              IF ~v.ok THEN JsonFail
              ELSE LET e == SkipWs(s, v.i)
                       d2 == DictSet(d, k.v.s, v.v)
                   IN IF CharAt(s, e) = "}" THEN JsonOk(PDict(d2), e + 1)
                      ELSE IF CharAt(s, e) = ","
                      THEN LET n == SkipWs(s, e + 1) IN
                           IF CharAt(s, n) = "\"" THEN ParseMembers(s, n, d2)
                           ELSE JsonFail
                      ELSE JsonFail

\* an object starting at the brace at i
ParseObject(s, i) ==
    LET j == SkipWs(s, i + 1) IN
    IF CharAt(s, j) = "}" THEN JsonOk(PDict(EmptyDict), j + 1)
    ELSE IF CharAt(s, j) = "\"" THEN ParseMembers(s, j, EmptyDict)
    ELSE JsonFail

ParseValue(s, i) ==
    LET c == CharAt(s, i) IN
    IF c = "\"" THEN ParseString(s, i)
    ELSE IF c = "{" THEN ParseObject(s, i)
    ELSE IF c = "[" THEN ParseArray(s, i)
    ELSE IF c = "n" /\ i + 3 <= Len(s) /\ SubSeq(s, i, i + 3) = "null"
         THEN JsonOk(PNone, i + 4)
    ELSE IF c = "t" /\ i + 3 <= Len(s) /\ SubSeq(s, i, i + 3) = "true"
         THEN JsonOk(PBool(TRUE), i + 4)
    ELSE IF c = "f" /\ i + 4 <= Len(s) /\ SubSeq(s, i, i + 4) = "false"
         THEN JsonOk(PBool(FALSE), i + 5)
    ELSE IF c = "-" \/ IsDigit(c) THEN ParseNumber(s, i)
    ELSE JsonFail

\* json.loads(s): ok is FALSE where Python raises JSONDecodeError
JsonLoads(s) ==
    LET r == ParseValue(s, SkipWs(s, 1)) IN
    IF r.ok /\ SkipWs(s, r.i) = Len(s) + 1
    THEN [ok |-> TRUE, v |-> r.v]
    ELSE [ok |-> FALSE, v |-> PNone]

-----------------------------------------------------------------------------
(* parse_tool_json *)

\* str.replace(old, new) for single characters, on the two halves in turn
RECURSIVE ReplaceChar(_, _, _)
ReplaceChar(s, old, new) ==
    IF Len(s) = 0 THEN ""
    ELSE IF Len(s) = 1 THEN (IF s = old THEN new ELSE s)
    ELSE ReplaceChar(SubSeq(s, 1, Len(s) \div 2), old, new)
         \o ReplaceChar(SubSeq(s, (Len(s) \div 2) + 1, Len(s)), old, new)

\* re.findall(r'\{[^{}]*\}', s) scanning from index i: the matches, left to
\* right and not overlapping.  An opening brace matches when the next brace
\* after it is a closing one.
RECURSIVE FindAllFlat(_, _)
FindAllFlat(s, i) ==
    LET open == FindFrom(s, "{", i) IN
    IF open = 0 THEN <<>>
    ELSE LET j == SkipToChars(s, open + 1, {"{", "}"}) IN
         IF CharAt(s, j) = "}"
         THEN <<SubSeq(s, open, j)>> \o FindAllFlat(s, j + 1)
         ELSE FindAllFlat(s, open + 1)

\* the list of candidate strings parse_tool_json builds, in order
Candidates(text) ==
    LET start == FindFrom(text, "{", 1)
        last == RFindFrom(text, "}", Len(text))
    IN <<Strip(text)>>
       \o (IF start # 0 /\ last # 0 /\ start < last + 1
           THEN <<SubSeq(text, start, last)>> ELSE <<>>)
       \o <<ReplaceChar(text, "'", "\"")>>
       \o FindAllFlat(text, 1)

\* the loop with a validator rejection ending the search
RECURSIVE TryCandidates_StopOnReject(_)
TryCandidates_StopOnReject(cands) ==
    IF Len(cands) = 0 THEN PNone
    ELSE LET p == JsonLoads(Head(cands)) IN
         IF ~p.ok THEN TryCandidates_StopOnReject(Tail(cands))
         ELSE LET r == ValidateTool(p.v) IN
              IF r.ret THEN r.obj ELSE PNone

\* the loop over the candidates: the first that parses and validates, or None
RECURSIVE TryCandidates(_)
TryCandidates(cands) ==
    IF Len(cands) = 0 THEN PNone
    ELSE LET p == JsonLoads(Head(cands)) IN
         IF ~p.ok THEN TryCandidates(Tail(cands))
         ELSE LET r == ValidateTool(p.v) IN
              IF r.ret THEN r.obj ELSE TryCandidates(Tail(cands))

\* parse_tool_json with a validator rejection ending the search
ParseToolJson_StopOnReject(text) == TryCandidates_StopOnReject(Candidates(text))

\* parse_tool_json(text): the validated tool, or None
ParseToolJson(text) == TryCandidates(Candidates(text))

-----------------------------------------------------------------------------
(* normalize_tool_with_snapshot *)

\* sub in s
Contains(s, sub) ==
    \E i \in 1..(Len(s) - Len(sub) + 1) : SubSeq(s, i, i + Len(sub) - 1) = sub

\* str.isalpha(): at least one character, all of them letters
IsAlpha(s) ==
    /\ Len(s) > 0
    /\ \A i \in 1..Len(s) : \E k \in 1..Len(UPPER) : Char(s, i) \in {Char(UPPER, k), Char(LOWER, k)}

\* end of the run of non-whitespace characters starting at i
WordEnd(s, i) == SkipToChars(s, i, WS)

\* end of the run of whitespace starting at i
WsEnd(s, i) == SkipChars(s, i, WS)

\* str.split() with no argument, from index i on
RECURSIVE SplitFrom(_, _)
SplitFrom(s, i) ==
    LET b == WsEnd(s, i) IN
    IF b > Len(s) THEN <<>>
    ELSE <<SubSeq(s, b, WordEnd(s, b) - 1)>> \o SplitFrom(s, WordEnd(s, b))

\* v or default
OrElse(v, default) == IF Truthy(v) THEN v ELSE default

\* the for loop of lines 245-250 from node i on.  err: a node that is not a
\* dict was reached (node.get raises); found: a node whose str(id) is the
\* target was reached, title being its stripped str(title)
\* the id scan going on past a matching node whose title is blank
RECURSIVE IdScan_PastBlank(_, _, _)
IdScan_PastBlank(snapshot, i, target) ==
    IF i > Len(snapshot) THEN [err |-> FALSE, found |-> FALSE, title |-> ""]
    ELSE LET node == snapshot[i] IN
         IF node.t # "dict" THEN [err |-> TRUE, found |-> FALSE, title |-> ""]
         ELSE IF /\ PyStr(DictGet(node.d, "id")) = target
                 /\ Strip(PyStr(DictGetDefault(node.d, "title", PStr("")))) # ""
         THEN [err |-> FALSE, found |-> TRUE,
               title |-> Strip(PyStr(DictGetDefault(node.d, "title", PStr(""))))]
         ELSE IdScan_PastBlank(snapshot, i + 1, target)

RECURSIVE IdScan(_, _, _)
IdScan(snapshot, i, target) ==
    IF i > Len(snapshot) THEN [err |-> FALSE, found |-> FALSE, title |-> ""]
    ELSE LET node == snapshot[i] IN
         IF node.t # "dict" THEN [err |-> TRUE, found |-> FALSE, title |-> ""]
         ELSE IF PyStr(DictGet(node.d, "id")) = target
         THEN [err |-> FALSE, found |-> TRUE,
               title |-> Strip(PyStr(DictGetDefault(node.d, "title", PStr(""))))]
         ELSE IdScan(snapshot, i + 1, target)

NodeTitle(node) == Strip(PyStr(DictGetDefault(node.d, "title", PStr(""))))

\* visible_titles (line 252), for a snapshot whose nodes are all dicts
VisibleTitles(snapshot) ==
    SelectSeq([i \in 1..Len(snapshot) |-> NodeTitle(snapshot[i])], LAMBDA x : x # "")

\* the tokens of line 257-259
Tokens(instruction) ==
    LET words == SplitFrom(ReplaceChar(Lower(instruction), "\n", " "), 1)
    IN { words[i] : i \in { k \in 1..Len(words) : IsAlpha(words[k]) /\ Len(words[k]) >= 3 } }

Score(title, tokens) == Cardinality({ w \in tokens : Contains(Lower(title), w) })

\* the loop of lines 260-267 from title i on: the best title so far and its score
RECURSIVE BestTitle(_, _, _, _, _)
BestTitle(titles, i, tokens, best, best_score) ==
    IF i > Len(titles) THEN [best |-> best, score |-> best_score]
    ELSE LET sc == Score(titles[i], tokens) IN
         IF sc > best_score THEN BestTitle(titles, i + 1, tokens, titles[i], sc)
         ELSE BestTitle(titles, i + 1, tokens, best, best_score)

\* normalize_tool_with_snapshot(tool, snapshot, instruction): the tool object
\* as the call leaves and returns it, and whether the except clause ran.
\* The tool is a dict with a string (or empty) action; the snapshot is a list.
NormalizeTool(tool, snapshot, instruction) ==
    LET action == Lower(OrElse(DictGet(tool.d, "action"), PStr("")).s)
        target == DictGet(tool.d, "target")
    IN
    IF ~(action \in {"click", "focus", "type"} /\ Truthy(target))
    THEN [tool |-> tool, err |-> FALSE]
    ELSE
    LET scan == IdScan(snapshot, 1, PyStr(target))
        \* line 249: tool["target"] = title
        tool1 == IF scan.found /\ scan.title # ""
                 THEN PDict(DictSet(tool.d, "target", PStr(scan.title)))
                 ELSE tool
    IN
    IF scan.err THEN [tool |-> tool, err |-> TRUE]
    ELSE
    \* line 252: n.get raises on the first node that is not a dict
    IF \E i \in 1..Len(snapshot) : snapshot[i].t # "dict"
    THEN [tool |-> tool1, err |-> TRUE]
    ELSE
    LET visible_titles == VisibleTitles(snapshot)
        tgt == Strip(PyStr(OrElse(DictGet(tool1.d, "target"), PStr(""))))
    IN IF tgt # "" /\ ~\E i \in 1..Len(visible_titles) : visible_titles[i] = tgt
       THEN LET b == BestTitle(visible_titles, 1, Tokens(instruction), "", 0)
            IN IF b.best # "" /\ b.score > 0
               THEN [tool |-> PDict(DictSet(tool1.d, "target", PStr(b.best))), err |-> FALSE]
               ELSE [tool |-> tool1, err |-> FALSE]
       ELSE [tool |-> tool1, err |-> FALSE]

-----------------------------------------------------------------------------
(* heuristic_tool.  The result is [raised, v]: raised when an exception     *)
(* leaves the function, v the tool dict or None.  Instructions hold no      *)
(* newline.                                                                 *)

StartsWith(s, p) == Len(s) >= Len(p) /\ SubSeq(s, 1, Len(p)) = p

\* s.split(" ", 1)[1]: what follows the first space
AfterFirstSpace(s) == SubSeq(s, FindFrom(s, " ", 1) + 1, Len(s))

QUOTE_CHARS == {"\"", "'"}

\* first_title_matching(term) from node i on: the title (as stored in the
\* node) of the first node whose lower-cased title contains the term or is
\* contained in it, else the term; node.get raises on a node that is no dict
RECURSIVE FirstTitleMatching(_, _, _)
FirstTitleMatching(snapshot, i, term) ==
    IF i > Len(snapshot) THEN [raised |-> FALSE, v |-> PStr(term)]
    ELSE LET node == snapshot[i] IN
         IF node.t # "dict" THEN [raised |-> TRUE, v |-> PNone]
         ELSE LET t == Lower(term)
                  title == Lower(PyStr(DictGetDefault(node.d, "title", PStr(""))))
              IN IF t # "" /\ title # "" /\ (Contains(title, t) \/ Contains(t, title))
                 THEN [raised |-> FALSE, v |-> DictGet(node.d, "title")]
                 ELSE FirstTitleMatching(snapshot, i + 1, term)

\* re.search(r'"([^"]+)"|\'([^\']+)\'', s) from index i on: the quoted text of
\* the leftmost match, "" when there is no match
RECURSIVE QuotedText(_, _)
QuotedText(s, i) ==
    LET q == SkipToChars(s, i, QUOTE_CHARS) IN
    IF q > Len(s) THEN ""
    ELSE LET j == FindFrom(s, Char(s, q), q + 1)
         IN IF j >= q + 2 THEN SubSeq(s, q + 1, j - 1) ELSE QuotedText(s, q + 1)

\* whether (?:into|in)\s+(.+)$ matches with the keyword kw at index i, s being
\* stripped and free of newlines
IntoAt(s, i, kw) ==
    /\ i + Len(kw) - 1 <= Len(s)
    /\ SubSeq(s, i, i + Len(kw) - 1) = kw
    /\ WsEnd(s, i + Len(kw)) > i + Len(kw)
    /\ WsEnd(s, i + Len(kw)) <= Len(s)

\* re.search(r"(?:into|in)\s+(.+)$", s).start(1) scanning from index i, as a
\* 1-based index; 0 when there is no match
IntoTargetStart(s, i) ==
    LET S == { k \in i..Len(s) : IntoAt(s, k, "into") \/ IntoAt(s, k, "in") } IN
    IF S = {} THEN 0
    ELSE IF IntoAt(s, Min(S), "into") THEN WsEnd(s, Min(S) + 4)
    ELSE WsEnd(s, Min(S) + 2)

HELP_PHRASES == {"what's on my screen", "what is on my screen", "help", "how do i"}

HELP_TEXT == "I can click, type, focus, or answer based on the visible UI. Try: 'Click Save', 'Type \"Hello\" into Search', or 'Focus password'."

\* the tool of a verb rule, given the result of first_title_matching
VerbTool(action, match, text) ==
    IF match.raised THEN [raised |-> TRUE, v |-> PNone]
    ELSE [raised |-> FALSE,
          v |-> PDict([action |-> PStr(action), target |-> match.v, text |-> PStr(text)])]

\* heuristic_tool with the help phrases looked for before the verbs
HeuristicTool_HelpFirst(instruction, snapshot) ==
    LET ins == Strip(instruction)
        low == Lower(ins)
    IN
    IF \E q \in HELP_PHRASES : Contains(low, q)
    THEN [raised |-> FALSE,
          v |-> PDict([action |-> PStr("answer"), target |-> PNone, text |-> PStr(HELP_TEXT)])]
    ELSE IF StartsWith(low, "click ") \/ StartsWith(low, "press ")
    THEN LET target == StripChars(Strip(AfterFirstSpace(ins)), QUOTE_CHARS)
         IN VerbTool("click", FirstTitleMatching(snapshot, 1, target), "")
    ELSE IF StartsWith(low, "focus ")
    THEN LET target == StripChars(Strip(AfterFirstSpace(ins)), QUOTE_CHARS)
         IN VerbTool("focus", FirstTitleMatching(snapshot, 1, target), "")
    ELSE IF StartsWith(low, "type ") \/ StartsWith(low, "enter ") \/ StartsWith(low, "input ")
    THEN LET text_value == QuotedText(ins, 1)
             m2 == IntoTargetStart(low, 1)
             target == IF m2 # 0 THEN Strip(SubSeq(ins, m2, Len(ins))) ELSE ""
         IN VerbTool("type", FirstTitleMatching(snapshot, 1, target),
                     IF text_value # "" THEN text_value ELSE Strip(AfterFirstSpace(ins)))
    ELSE [raised |-> FALSE, v |-> PNone]

HeuristicTool(instruction, snapshot) ==
    LET ins == Strip(instruction)
        low == Lower(ins)
    IN
    IF StartsWith(low, "click ") \/ StartsWith(low, "press ")
    THEN LET target == StripChars(Strip(AfterFirstSpace(ins)), QUOTE_CHARS)
         IN VerbTool("click", FirstTitleMatching(snapshot, 1, target), "")
    ELSE IF StartsWith(low, "focus ")
    THEN LET target == StripChars(Strip(AfterFirstSpace(ins)), QUOTE_CHARS)
         IN VerbTool("focus", FirstTitleMatching(snapshot, 1, target), "")
    ELSE IF StartsWith(low, "type ") \/ StartsWith(low, "enter ") \/ StartsWith(low, "input ")
    THEN LET text_value == QuotedText(ins, 1)
             m2 == IntoTargetStart(low, 1)
             target == IF m2 # 0 THEN Strip(SubSeq(ins, m2, Len(ins))) ELSE ""
         IN VerbTool("type", FirstTitleMatching(snapshot, 1, target),
                     IF text_value # "" THEN text_value ELSE Strip(AfterFirstSpace(ins)))
    ELSE IF \E q \in HELP_PHRASES : Contains(low, q)
    THEN [raised |-> FALSE,
          v |-> PDict([action |-> PStr("answer"), target |-> PNone, text |-> PStr(HELP_TEXT)])]
    ELSE [raised |-> FALSE, v |-> PNone]

-----------------------------------------------------------------------------
(* fallback_tool, query_ollama, plan_action *)

\* fallback_tool with the detail left out of the echo
FallbackTool_NoDetail(instruction, detail) ==
    PDict([response |-> PStr("Fallback response generated"),
           tool |-> PDict([action |-> PStr("answer"), target |-> PNone,
                           text |-> PStr("Echo: " \o instruction)])])

\* fallback_tool(instruction, detail): detail is a string or None
FallbackTool(instruction, detail) ==
    LET text == IF Truthy(detail)
                THEN "Echo: " \o instruction \o " (AI offline: " \o PyStr(detail) \o ")"
                ELSE "Echo: " \o instruction
    IN PDict([response |-> PStr("Fallback response generated"),
              tool |-> PDict([action |-> PStr("answer"), target |-> PNone,
                              text |-> PStr(text)])])

\* What the model service does with one request:
\*   [kind |-> "urlerror", exc |-> message]  urlopen or read raises URLError,
\*        HTTPError, TimeoutError or socket.timeout, str(exc) being the message
\*   [kind |-> "undecodable"] a body that is not UTF-8, its first byte being 0xff
\*   [kind |-> "body", text |-> the body, decoded]
UrlError(msg) == [kind |-> "urlerror", exc |-> msg]
Undecodable == [kind |-> "undecodable"]
Body(text) == [kind |-> "body", text |-> text]

\* str(exc) of the JSONDecodeError for a body that is no JSON from its first
\* character on
DECODE_ERROR_TEXT == "Expecting value: line 1 column 1 (char 0)"

\* type(v).__name__
TypeName(v) ==
    CASE v.t = "none" -> "NoneType"
      [] v.t = "str" -> "str"
      [] v.t = "int" -> "int"
      [] v.t = "bool" -> "bool"
      [] v.t = "list" -> "list"
      [] v.t = "dict" -> "dict"

\* str(exc) of the UnicodeDecodeError for a body that starts with the byte 0xff
UNICODE_ERROR_TEXT == "'utf-8' codec can't decode byte 0xff in position 0: invalid start byte"

\* str(exc) of the AttributeError of v.get
NoGetText(v) == "'" \o TypeName(v) \o "' object has no attribute 'get'"

Returned(tool, err) == [raised |-> "", msg |-> "", tool |-> tool, err |-> err]
Raised(exc, msg) == [raised |-> exc, msg |-> msg, tool |-> PNone, err |-> PNone]

\* lines 403-416, shared by query_ollama and generate_text: what the reply of
\* the model service yields.  raised names the exception that leaves the
\* function (none when ""); otherwise the pair (raw, error), one of them None.
ReadResponse(outcome) ==
    CASE outcome.kind = "urlerror" ->
            Returned(PNone, PStr("Ollama connection error: " \o outcome.exc))
      [] outcome.kind = "undecodable" -> Raised("UnicodeDecodeError", UNICODE_ERROR_TEXT)
      [] outcome.kind = "body" ->
            LET p == JsonLoads(outcome.text) IN
            IF ~p.ok
            THEN Returned(PNone, PStr("Ollama response decode error: " \o DECODE_ERROR_TEXT))
            ELSE IF p.v.t # "dict" THEN Raised("AttributeError", NoGetText(p.v))
            ELSE LET raw == DictGet(p.v.d, "response") IN
                 IF raw.t # "str"
                 THEN Returned(PNone, PStr("Ollama returned invalid response format"))
                 ELSE Returned(raw, PNone)

\* query_ollama, lines 419-422: the pair returned for what parse_tool_json gave
ParsedOrError(tool) ==
    IF tool = PNone
    THEN Returned(PNone, PStr("Failed to parse valid tool JSON from Ollama response"))
    ELSE Returned(tool, PNone)

\* query_ollama, lines 417-422, r being what the read of the reply yielded
ParseRaw(r) ==
    IF r.raised # "" \/ r.tool = PNone THEN r
    ELSE ParsedOrError(ParseToolJson(r.tool.s))

\* query_ollama from the reply of the model service on: (tool, error) or raise
QueryOllama(outcome) == ParseRaw(ReadResponse(outcome))

\* generate_text from the reply of the model service on: (text, error) or raise
GenerateText(outcome) == ReadResponse(outcome)

\* plan_action, line 215 on, going straight to the echo fallback
StageAfterQuery_SkipHeuristic(q) ==
    IF q.raised # "" THEN "raised"
    ELSE IF q.tool = PNone THEN "fallback"
    ELSE "normalize"

\* plan_action, line 215: where it goes once query_ollama is back
StageAfterQuery(q) ==
    IF q.raised # "" THEN "raised"
    ELSE IF q.tool = PNone THEN "heuristic"
    ELSE "normalize"

\* plan_action, line 220: the result built from a heuristic tool
HeuristicResult(heuristic) ==
    PDict([response |-> OrElse(DictGet(heuristic.d, "text"), PStr("Action planned")),
           tool |-> heuristic])

\* str.strip() of f"Planned: {action} {target}"
PlannedText(action, target) == Strip("Planned: " \o PyStr(action) \o " " \o PyStr(target))

\* plan_action, lines 226-233: the result built from the normalized tool
ToolResult(tool) ==
    LET action == OrElse(DictGet(tool.d, "action"), PStr(""))
        target == OrElse(DictGet(tool.d, "target"), PStr(""))
        response_text == IF action = PStr("answer")
                         THEN OrElse(DictGet(tool.d, "text"), PStr("(no response)"))
                         ELSE PStr(PlannedText(action, target))
    IN PDict([response |-> response_text, tool |-> tool])

\* plan_action, lines 225-233: the result built from the model's tool
ModelResult(tool, snapshot, instruction) ==
    ToolResult(NormalizeTool(tool, snapshot, instruction).tool)

\* plan_action, lines 218-222, h being what heuristic_tool did
HeuristicOrFallback(h, instruction, tool_error) ==
    IF h.raised THEN [raised |-> "AttributeError", result |-> PNone]
    ELSE IF h.v # PNone THEN [raised |-> "", result |-> HeuristicResult(h.v)]
    ELSE [raised |-> "", result |-> FallbackTool(instruction, tool_error)]

\* plan_action, lines 215-233, q being what query_ollama did
PlanFrom(instruction, snapshot, q) ==
    CASE StageAfterQuery(q) = "raised" -> [raised |-> q.raised, result |-> PNone]
      [] StageAfterQuery(q) = "normalize" ->
             [raised |-> "", result |-> ModelResult(q.tool, snapshot, instruction)]
      [] StageAfterQuery(q) = "fallback" ->
             [raised |-> "", result |-> FallbackTool(instruction, q.err)]
      [] StageAfterQuery(q) = "heuristic" ->
             HeuristicOrFallback(HeuristicTool(instruction, snapshot), instruction, q.err)

\* plan_action from the reply of the model service on: [raised, result], raised
\* naming the exception that leaves it (none when "")
PlanAction(instruction, snapshot, outcome) ==
    PlanFrom(instruction, snapshot, QueryOllama(outcome))

-----------------------------------------------------------------------------
(* Calls of normalize_tool_with_snapshot on bounded inputs *)

\* a tool as validate_tool leaves it
Tool(action, target, text) == PDict([action |-> PStr(action), target |-> target, text |-> PStr(text)])

NzTools ==
    { Tool(a, tg, "") :
        a \in {"click", "type", "answer"},
        tg \in {PNone, PStr(""), PStr("42"), PStr("7"), PStr("Save"), PStr("xyz"), PStr("None")} }

NzNodes ==
    { PDict([id |-> PInt(42), title |-> PStr("Save")]),
      PDict([id |-> PStr("42"), title |-> PStr("  ")]),
      PDict([id |-> PInt(7), title |-> PStr(" Cancel ")]),
      PDict([title |-> PStr("Save As")]),
      PDict([id |-> PStr("xyz")]),
      PDict([id |-> PStr("xyz"), title |-> PStr("42")]),
      PStr("junk") }

NzSnapshots == UNION { [1..n -> NzNodes] : n \in 0..MaxNodes }

NzInstructions == { "", "press 42", "Click the SAVE\nbutton", "cancel it" }

NzInit ==
    /\ nz_pc = "call"
    /\ nz_arg \in NzTools
    /\ nz_tool = nz_arg
    /\ nz_snap \in NzSnapshots
    /\ nz_ins \in NzInstructions
    /\ nz_err = FALSE

NzCall ==
    /\ nz_pc = "call"
    /\ LET r == NormalizeTool(nz_tool, nz_snap, nz_ins) IN
         /\ nz_tool' = r.tool
         /\ nz_err' = r.err
    /\ nz_pc' = "done"
    /\ UNCHANGED <<nz_arg, nz_snap, nz_ins>>

NzOff ==
    /\ nz_pc = "off" /\ nz_arg = PNone /\ nz_tool = PNone
    /\ nz_snap = <<>> /\ nz_ins = "" /\ nz_err = FALSE

-----------------------------------------------------------------------------
(* Calls of parse_tool_json on bounded inputs *)

\* pieces of model output; a text is up to MaxPieces of them in a row
Fragments ==
    { "{\"action\":\"click\"}",
      "{\"action\":\"jump\"}",
      "{'action':'focus'}",
      "{\"action\":\"focus\",\"target\":",
      "{\"k\":",
      "{", "}", " ", "x", "7" }

RECURSIVE Concat(_)
Concat(pieces) == IF Len(pieces) = 0 THEN "" ELSE Head(pieces) \o Concat(Tail(pieces))

PjTexts == { Concat(p) : p \in UNION { [1..n -> Fragments] : n \in 0..MaxPieces } }

PjInit ==
    /\ pj_pc = "call"
    /\ pj_text \in PjTexts
    /\ pj_ret = PNone

PjCall ==
    /\ pj_pc = "call"
    /\ pj_ret' = ParseToolJson(pj_text)
    /\ pj_pc' = "done"
    /\ UNCHANGED pj_text

PjOff == pj_pc = "off" /\ pj_text = "" /\ pj_ret = PNone

-----------------------------------------------------------------------------
(* Calls of validate_tool on bounded inputs *)

Absent == [t |-> "absent"]

\* a dict from key/value choices, leaving out the keys chosen Absent
MkDict(kv) == [k \in {x \in DOMAIN kv : kv[x] # Absent} |-> kv[k]]

VtInputs ==
    { PNone, PStr("click"), PInt(MaxIntVal), PList(<<>>), PBool(TRUE) }
    \cup { PDict(MkDict([action |-> a, target |-> tg, text |-> tx, role |-> ex])) :
             a \in { Absent, PNone, PInt(1), PBool(TRUE), PStr(""), PStr("jump"),
                     PStr(" Jump"), PStr("click"), PStr(" Click "), PStr("ANSWER"),
                     PStr("type\n"), PStr("\tFocus"), PStr("cl ick") },
             tg \in { Absent, PNone, PStr(""), PStr("Save"), PBool(TRUE), PList(<<>>),
                      PList(<<PInt(1), PStr("a")>>), PDict(EmptyDict) }
                    \cup { PInt(n) : n \in 0..MaxIntVal },
             tx \in { Absent, PNone, PStr(""), PStr("hi"), PInt(MaxIntVal), PBool(FALSE) },
             ex \in { Absent, PStr("x") } }

VtInit ==
    /\ vt_pc = "call"
    /\ vt_arg \in VtInputs
    /\ vt_obj = vt_arg
    /\ vt_ret = FALSE

VtCall ==
    /\ vt_pc = "call"
    /\ LET r == ValidateTool(vt_obj) IN
         /\ vt_obj' = r.obj
         /\ vt_ret' = r.ret
    /\ vt_pc' = "done"
    /\ UNCHANGED vt_arg

VtOff == vt_pc = "off" /\ vt_arg = PNone /\ vt_obj = PNone /\ vt_ret = FALSE

-----------------------------------------------------------------------------
(* Calls of plan_action on bounded inputs, one statement group at a time *)

PlInstructions ==
    { "open settings", "click help", "Click Save", " press 42 ", "focus \"Name\"",
      "type 'hi' into Search", "Enter hello in the box", "how do I save",
      "click ", "click\tSave", "FOCUS password", "input x in", "help",
      "What's on my screen?" }

PlSnapshots ==
    { <<>>,
      <<PDict([id |-> PInt(42), title |-> PStr("Save")])>>,
      <<PDict([id |-> PInt(7), title |-> PStr("Search box")]),
        PDict([id |-> PInt(42), title |-> PStr("Save")])>>,
      <<PDict([id |-> PInt(42), title |-> PStr("Save")]), PStr("junk")>> }

PlOutcomes ==
    { UrlError("<urlopen error [Errno 111] Connection refused>"),
      UrlError("timed out"),
      UrlError("HTTP Error 404: Not Found"),
      Undecodable,
      Body("not json"),
      Body("[1]"),
      Body("7"),
      Body("\"text\""),
      Body("{}"),
      Body("{\"response\": 7}"),
      Body("{\"response\": null}"),
      Body("{\"response\": \"I cannot help\"}"),
      Body("{\"response\": \"{\\\"action\\\": \\\"jump\\\"}\"}"),
      Body("{\"response\": \"{\\\"action\\\": \\\"click\\\", \\\"target\\\": \\\"42\\\"}\"}"),
      Body("{\"response\": \"{\\\"action\\\": \\\"type\\\", \\\"target\\\": \\\"field\\\", \\\"text\\\": \\\"hi\\\"}\"}"),
      Body("{\"response\": \"{\\\"action\\\": \\\"answer\\\", \\\"text\\\": \\\"Hello\\\"}\"}"),
      Body("{\"response\": \"Sure: {'action': 'Focus', 'target': 'Save'}\"}") }

PlInit ==
    /\ pl_pc = "query"
    /\ pl_ins \in PlInstructions
    /\ pl_snap \in PlSnapshots
    /\ pl_outcome \in PlOutcomes
    /\ pl_tool = PNone
    /\ pl_err = PNone
    /\ pl_heur = PNone
    /\ pl_result = PNone
    /\ pl_raised = ""
    /\ pl_trace = <<>>

\* line 213: tool, tool_error = query_ollama(prompt, ...)
PlQueryBack(q) ==
    /\ pl_tool' = q.tool
    /\ pl_err' = q.err
    /\ pl_raised' = q.raised
    /\ pl_pc' = StageAfterQuery(q)

PlQuery ==
    /\ pl_pc = "query"
    /\ PlQueryBack(QueryOllama(pl_outcome))
    /\ pl_trace' = Append(pl_trace, "query")
    /\ UNCHANGED <<pl_ins, pl_snap, pl_outcome, pl_heur, pl_result>>

\* lines 218-220: heuristic = heuristic_tool(instruction, snapshot)
PlHeuristicBack(h) ==
    /\ pl_heur' = h.v
    /\ pl_raised' = IF h.raised THEN "AttributeError" ELSE ""
    /\ pl_pc' = IF h.raised THEN "raised" ELSE IF h.v # PNone THEN "done" ELSE "fallback"
    /\ pl_result' = IF ~h.raised /\ h.v # PNone THEN HeuristicResult(h.v) ELSE PNone

PlHeuristic ==
    /\ pl_pc = "heuristic"
    /\ PlHeuristicBack(HeuristicTool(pl_ins, pl_snap))
    /\ pl_trace' = Append(pl_trace, "heuristic")
    /\ UNCHANGED <<pl_ins, pl_snap, pl_outcome, pl_tool, pl_err>>

\* lines 221-222: fallback = fallback_tool(instruction, tool_error)
PlFallback ==
    /\ pl_pc = "fallback"
    /\ pl_result' = FallbackTool(pl_ins, pl_err)
    /\ pl_pc' = "done"
    /\ pl_trace' = Append(pl_trace, "fallback")
    /\ UNCHANGED <<pl_ins, pl_snap, pl_outcome, pl_tool, pl_err, pl_heur, pl_raised>>

\* lines 225-233: normalize the model's tool and summarise it
PlNormalize ==
    /\ pl_pc = "normalize"
    /\ pl_result' = ModelResult(pl_tool, pl_snap, pl_ins)
    /\ pl_pc' = "done"
    /\ pl_trace' = Append(pl_trace, "normalize")
    /\ UNCHANGED <<pl_ins, pl_snap, pl_outcome, pl_tool, pl_err, pl_heur, pl_raised>>

PlOff ==
    /\ pl_pc = "off" /\ pl_ins = "" /\ pl_snap = <<>> /\ pl_outcome = Undecodable
    /\ pl_tool = PNone /\ pl_err = PNone /\ pl_heur = PNone /\ pl_result = PNone
    /\ pl_raised = "" /\ pl_trace = <<>>

-----------------------------------------------------------------------------
(* The HTTP server: CommandHandler.do_POST on the threads of                *)
(* ThreadedTCPServer, and callers of plan_action, sharing server_state.     *)
(* A thread takes a step at each read or write of server_state; what a      *)
(* handler does between two of them is local to it.                         *)

Threads == 1..NThreads

DEFAULT_OLLAMA_URL == "http://127.0.0.1:11434/api/generate"
DEFAULT_OLLAMA_MODEL == "qwen2.5:3b"

NoReq == [path |-> ""]
NoLoc == [model |-> "", url |-> "", updated |-> FALSE]
NoCall == [model |-> "", url |-> ""]
NoReply == [status |-> 0, body |-> PNone, raised |-> ""]

\* an HTTP reply with a JSON body
HttpReply(status, body) == [status |-> status, body |-> body, raised |-> ""]

\* _send_error
HttpError(status, message) == HttpReply(status, PDict([error |-> PStr(message)]))

\* an exception leaves the handler or the call: no reply is written
NoReplyRaised(exc) == [status |-> 0, body |-> PNone, raised |-> exc]

\* how a call of plan_action ends for its caller
CallEnd(r) ==
    IF r.raised # "" THEN NoReplyRaised(r.raised)
    ELSE [status |-> 0, body |-> r.result, raised |-> ""]

\* POST requests: the path, the Content-Length header ("ok", "missing" or
\* "invalid"), and the body: BadJson, or the value the JSON body decodes to
BadJson == [t |-> "badjson"]

PostRequest(path, length, payload) == [path |-> path, length |-> length, payload |-> payload]

SettingsPayloads ==
    { PList(<<>>) }
    \cup { PDict(MkDict([ollama_url |-> u, ollama_model |-> mo])) :
             u \in { Absent, PStr(" http://b ") },
             mo \in { Absent, PStr("m1"), PStr(" m1 "), PStr("  ") } }

CommandPayloads ==
    { PList(<<>>),
      PDict(EmptyDict),
      PDict([invalid |-> PStr("data")]),
      PDict([instruction |-> PInt(MaxIntVal)]),
      PDict([instruction |-> PStr("")]),
      PDict([instruction |-> PStr(" \n")]),
      PDict([instruction |-> PStr(" open settings ")]),
      PDict([instruction |-> PStr("click help"), model |-> PStr(" mx ")]),
      PDict([instruction |-> PStr("click help"), model |-> PInt(MaxIntVal)]) }

MalformedRequests ==
    { PostRequest("/other", "ok", PDict(EmptyDict)),
      PostRequest("/command", "missing", PDict(EmptyDict)),
      PostRequest("/settings", "invalid", PDict(EmptyDict)),
      PostRequest("/command", "ok", BadJson),
      PostRequest("/settings", "ok", BadJson) }

\* calls of plan_action(instruction, snapshot, model_override)
PlanCalls ==
    { [path |-> "plan_action", instruction |-> i, snapshot |-> s, model_override |-> o] :
        i \in { "open settings", "click help" },
        s \in { <<>> },
        o \in { PNone, PStr("mx") } }

\* what the model service may do with a request of the server
ServiceOutcomes ==
    { UrlError("<urlopen error [Errno 111] Connection refused>"),
      UrlError("timed out"),
      Undecodable,
      Body("not json"),
      Body("[1]"),
      Body("{\"response\": 7}"),
      Body("{\"response\": \"{\\\"action\\\": \\\"click\\\", \\\"target\\\": \\\"42\\\"}\"}") }

\* lines 47-72: the reply that ends a malformed request, NoReply when the
\* request goes on to its handler
EarlyReply(r) ==
    IF r.path \notin {"/command", "/settings"} THEN HttpError(404, "Not found")
    ELSE IF r.length = "missing" THEN HttpError(411, "Content-Length header required")
    ELSE IF r.length = "invalid" THEN HttpError(400, "Invalid Content-Length header")
    ELSE IF r.payload = BadJson
         THEN HttpError(400, "Invalid JSON payload: " \o DECODE_ERROR_TEXT)
    ELSE NoReply

\* key in json_payload, for a payload that is a dict or a list
InPayload(k, payload) ==
    CASE payload.t = "dict" -> HasKey(payload.d, k)
      [] payload.t = "list" -> \E i \in 1..Len(payload.items) : payload.items[i] = PStr(k)

\* lines 77-79 and 82-84: str(json_payload[k]).strip() when the key is there,
\* "" when it is not
SettingValue(k, payload) ==
    IF InPayload(k, payload) THEN Strip(PyStr(payload.d[k])) ELSE ""

\* line 101: the per-request model override, None unless a non-blank string
ModelOverride(payload) ==
    LET req_model == DictGet(payload.d, "model") IN
    IF req_model.t = "str" /\ Strip(req_model.s) # "" THEN PStr(Strip(PyStr(req_model)))
    ELSE PNone

\* line 95: the instruction is a string that is not blank
ValidInstruction(instruction) == instruction.t = "str" /\ Strip(instruction.s) # ""

\* the model name of a call that keeps the default it was started with
ModelFor_Default(model_override, state) ==
    IF Truthy(model_override) THEN model_override.s ELSE DEFAULT_OLLAMA_MODEL

\* lines 180 and 385: model = model_override or server_state["ollama_model"]
ModelFor(model_override, state) ==
    IF Truthy(model_override) THEN model_override.s ELSE state.ollama_model

\* lines 106-116: do_POST's reply to what generate_text did
CommandReply(g) ==
    IF g.raised # ""
    THEN HttpReply(500, PDict([response |-> PStr("Error processing request: " \o g.msg)]))
    ELSE IF Truthy(g.err)
    THEN HttpReply(502, PDict([response |-> PStr("Error: " \o g.err.s)]))
    ELSE HttpReply(200, PDict([response |-> g.tool]))

\* line 91: {"status": "ok", **server_state}
SettingsReplyBody(state) ==
    PDict([status |-> PStr("ok"), ollama_url |-> PStr(state.ollama_url),
           ollama_model |-> PStr(state.ollama_model)])

SrvInit ==
    /\ server_state = [ollama_url |-> DEFAULT_OLLAMA_URL, ollama_model |-> DEFAULT_OLLAMA_MODEL]
    /\ pc = [t \in Threads |-> "idle"]
    /\ req = [t \in Threads |-> NoReq]
    /\ loc = [t \in Threads |-> NoLoc]
    /\ sent = [t \in Threads |-> NoCall]
    /\ reply = [t \in Threads |-> NoReply]

\* lines 47-72: a request that is answered before it reaches a handler
RejectRequest(t) ==
    /\ pc[t] = "idle"
    /\ \E r \in MalformedRequests :
         /\ req' = [req EXCEPT ![t] = r]
         /\ reply' = [reply EXCEPT ![t] = EarlyReply(r)]
    /\ pc' = [pc EXCEPT ![t] = "done"]
    /\ UNCHANGED <<server_state, loc, sent>>

\* POST /settings, lines 47-81: up to the write of ollama_url
SettingsUrl(t) ==
    /\ pc[t] = "idle"
    /\ \E p \in SettingsPayloads :
         LET url == SettingValue("ollama_url", p) IN
         /\ req' = [req EXCEPT ![t] = PostRequest("/settings", "ok", p)]
         /\ server_state' = IF url # "" THEN [server_state EXCEPT !.ollama_url = url]
                            ELSE server_state
         /\ loc' = [loc EXCEPT ![t] = [NoLoc EXCEPT !.updated = (url # "")]]
    /\ pc' = [pc EXCEPT ![t] = "s_model"]
    /\ UNCHANGED <<sent, reply>>

\* POST /settings, lines 82-86: the write of ollama_model
SettingsModel(t) ==
    /\ pc[t] = "s_model"
    /\ LET model == SettingValue("ollama_model", req[t].payload) IN
         /\ server_state' = IF model # "" THEN [server_state EXCEPT !.ollama_model = model]
                            ELSE server_state
         /\ loc' = [loc EXCEPT ![t].updated = loc[t].updated \/ model # ""]
    /\ pc' = [pc EXCEPT ![t] = "s_reply"]
    /\ UNCHANGED <<req, sent, reply>>

\* POST /settings, lines 87-92: the reply
SettingsReply(t) ==
    /\ pc[t] = "s_reply"
    /\ reply' = [reply EXCEPT ![t] =
                    IF ~loc[t].updated THEN HttpError(400, "No recognized settings in payload")
                    ELSE HttpReply(200, SettingsReplyBody(server_state))]
    /\ pc' = [pc EXCEPT ![t] = "done"]
    /\ UNCHANGED <<server_state, req, loc, sent>>

\* POST /command, lines 94: json_payload.get raises on a payload that is no dict
CommandCrash(t) ==
    /\ pc[t] = "idle"
    /\ \E p \in CommandPayloads :
         /\ p.t # "dict"
         /\ req' = [req EXCEPT ![t] = PostRequest("/command", "ok", p)]
    /\ reply' = [reply EXCEPT ![t] = NoReplyRaised("AttributeError")]
    /\ pc' = [pc EXCEPT ![t] = "done"]
    /\ UNCHANGED <<server_state, loc, sent>>

\* POST /command, lines 94-97: the instruction is missing, no string or blank
CommandReject(t) ==
    /\ pc[t] = "idle"
    /\ \E p \in CommandPayloads :
         /\ p.t = "dict"
         /\ ~ValidInstruction(DictGet(p.d, "instruction"))
         /\ req' = [req EXCEPT ![t] = PostRequest("/command", "ok", p)]
    /\ reply' = [reply EXCEPT ![t] =
                    HttpError(400, "Field 'instruction' must be a non-empty string")]
    /\ pc' = [pc EXCEPT ![t] = "done"]
    /\ UNCHANGED <<server_state, loc, sent>>

\* POST /command, lines 94-107 and 180: up to generate_text's read of the model
CommandModel(t) ==
    /\ pc[t] = "idle"
    /\ \E p \in CommandPayloads :
         /\ p.t = "dict"
         /\ ValidInstruction(DictGet(p.d, "instruction"))
         /\ req' = [req EXCEPT ![t] = PostRequest("/command", "ok", p)]
         /\ loc' = [loc EXCEPT ![t] =
                       [NoLoc EXCEPT !.model = ModelFor(ModelOverride(p), server_state)]]
    /\ pc' = [pc EXCEPT ![t] = "g_url"]
    /\ UNCHANGED <<server_state, sent, reply>>

\* generate_text, line 181: the read of the url
CommandUrl(t) ==
    /\ pc[t] = "g_url"
    /\ loc' = [loc EXCEPT ![t].url = server_state.ollama_url]
    /\ pc' = [pc EXCEPT ![t] = "g_call"]
    /\ UNCHANGED <<server_state, req, sent, reply>>

\* generate_text, lines 182-207, and do_POST, lines 108-116: the request to
\* the model service, its outcome and the reply
CommandCall(t) ==
    /\ pc[t] = "g_call"
    /\ sent' = [sent EXCEPT ![t] = [model |-> loc[t].model, url |-> loc[t].url]]
    /\ \E o \in ServiceOutcomes :
         reply' = [reply EXCEPT ![t] = CommandReply(GenerateText(o))]
    /\ pc' = [pc EXCEPT ![t] = "done"]
    /\ UNCHANGED <<server_state, req, loc>>

\* plan_action, lines 212-213 and 385: up to query_ollama's read of the model
PlanModel(t) ==
    /\ pc[t] = "idle"
    /\ \E c \in PlanCalls :
         /\ req' = [req EXCEPT ![t] = c]
         /\ loc' = [loc EXCEPT ![t] =
                       [NoLoc EXCEPT !.model = ModelFor(c.model_override, server_state)]]
    /\ pc' = [pc EXCEPT ![t] = "q_url"]
    /\ UNCHANGED <<server_state, sent, reply>>

\* query_ollama, line 386: the read of the url
PlanUrl(t) ==
    /\ pc[t] = "q_url"
    /\ loc' = [loc EXCEPT ![t].url = server_state.ollama_url]
    /\ pc' = [pc EXCEPT ![t] = "q_call"]
    /\ UNCHANGED <<server_state, req, sent, reply>>

\* query_ollama, lines 387-422, and plan_action, lines 215-233: the request
\* to the model service, its outcome and the rest of the call
PlanCall(t) ==
    /\ pc[t] = "q_call"
    /\ sent' = [sent EXCEPT ![t] = [model |-> loc[t].model, url |-> loc[t].url]]
    /\ \E o \in ServiceOutcomes :
         reply' = [reply EXCEPT ![t] =
                      CallEnd(PlanAction(req[t].instruction, req[t].snapshot, o))]
    /\ pc' = [pc EXCEPT ![t] = "done"]
    /\ UNCHANGED <<server_state, req, loc>>

\* the thread is free for the next request
Finish(t) ==
    /\ pc[t] = "done"
    /\ pc' = [pc EXCEPT ![t] = "idle"]
    /\ req' = [req EXCEPT ![t] = NoReq]
    /\ loc' = [loc EXCEPT ![t] = NoLoc]
    /\ sent' = [sent EXCEPT ![t] = NoCall]
    /\ reply' = [reply EXCEPT ![t] = NoReply]
    /\ UNCHANGED server_state

SrvOff ==
    /\ server_state = [ollama_url |-> DEFAULT_OLLAMA_URL, ollama_model |-> DEFAULT_OLLAMA_MODEL]
    /\ pc = <<>> /\ req = <<>> /\ loc = <<>> /\ sent = <<>> /\ reply = <<>>

-----------------------------------------------------------------------------
(* Specifications *)

Init == SrvInit /\ VtOff /\ PjOff /\ NzOff /\ PlOff

Next ==
    \E t \in Threads :
        \/ RejectRequest(t) /\ UNCHANGED fnVars
        \/ SettingsUrl(t) /\ UNCHANGED fnVars
        \/ SettingsModel(t) /\ UNCHANGED fnVars
        \/ SettingsReply(t) /\ UNCHANGED fnVars
        \/ CommandCrash(t) /\ UNCHANGED fnVars
        \/ CommandReject(t) /\ UNCHANGED fnVars
        \/ CommandModel(t) /\ UNCHANGED fnVars
        \/ CommandUrl(t) /\ UNCHANGED fnVars
        \/ CommandCall(t) /\ UNCHANGED fnVars
        \/ PlanModel(t) /\ UNCHANGED fnVars
        \/ PlanUrl(t) /\ UNCHANGED fnVars
        \/ PlanCall(t) /\ UNCHANGED fnVars
        \/ Finish(t) /\ UNCHANGED fnVars

Spec == Init /\ [][Next]_vars

\* one POST /settings that supplies both ollama_url and ollama_model, served
\* by thread 1, while thread 2 serves one call that queries the model service
NextOneUpdate ==
    \/ /\ SettingsUrl(1)
       /\ SettingValue("ollama_url", req'[1].payload) # ""
       /\ SettingValue("ollama_model", req'[1].payload) # ""
       /\ UNCHANGED fnVars
    \/ SettingsModel(1) /\ UNCHANGED fnVars
    \/ SettingsReply(1) /\ UNCHANGED fnVars
    \/ CommandModel(2) /\ UNCHANGED fnVars
    \/ CommandUrl(2) /\ UNCHANGED fnVars
    \/ CommandCall(2) /\ UNCHANGED fnVars
    \/ PlanModel(2) /\ UNCHANGED fnVars
    \/ PlanUrl(2) /\ UNCHANGED fnVars
    \/ PlanCall(2) /\ UNCHANGED fnVars

SpecOneUpdate == Init /\ [][NextOneUpdate]_vars

InitValidate == VtInit /\ SrvOff /\ PjOff /\ NzOff /\ PlOff

NextValidate == VtCall /\ UNCHANGED <<srvVars, pjVars, nzVars, plVars>>

SpecValidate == InitValidate /\ [][NextValidate]_vars

InitParse == PjInit /\ SrvOff /\ VtOff /\ NzOff /\ PlOff

NextParse == PjCall /\ UNCHANGED <<srvVars, vtVars, nzVars, plVars>>

SpecParse == InitParse /\ [][NextParse]_vars

InitNormalize == NzInit /\ SrvOff /\ VtOff /\ PjOff /\ PlOff

NextNormalize == NzCall /\ UNCHANGED <<srvVars, vtVars, pjVars, plVars>>

SpecNormalize == InitNormalize /\ [][NextNormalize]_vars

InitPlan == PlInit /\ SrvOff /\ VtOff /\ PjOff /\ NzOff

NextPlan ==
    \/ PlQuery /\ UNCHANGED <<srvVars, vtVars, pjVars, nzVars>>
    \/ PlHeuristic /\ UNCHANGED <<srvVars, vtVars, pjVars, nzVars>>
    \/ PlFallback /\ UNCHANGED <<srvVars, vtVars, pjVars, nzVars>>
    \/ PlNormalize /\ UNCHANGED <<srvVars, vtVars, pjVars, nzVars>>

SpecPlan == InitPlan /\ [][NextPlan]_vars

-----------------------------------------------------------------------------
(* Claims about validate_tool *)

VtInputAction == Strip(Lower(vt_arg.d["action"].s))

VtShouldAccept ==
    /\ vt_arg.t = "dict"
    /\ HasKey(vt_arg.d, "action")
    /\ vt_arg.d["action"].t = "str"
    /\ VtInputAction \in ALLOWED_ACTIONS

VtGiven(k) == HasKey(vt_arg.d, k) /\ vt_arg.d[k].t # "none"

\* C7: validate_tool accepts exactly the objects whose action is a string that,
\* lower-cased and trimmed, is an allowed action; an accepted tool has that
\* normalised action, target = str(input target) or None (never "") when the
\* input target is missing or null, text = str(input text) or "" when missing
\* or null.
C7_ValidateContract ==
    vt_pc = "done" =>
        /\ vt_ret = VtShouldAccept
        /\ vt_ret =>
            /\ vt_obj.d["action"] = PStr(VtInputAction)
            /\ vt_obj.d["action"].s \in ALLOWED_ACTIONS
            /\ VtGiven("target") => vt_obj.d["target"] = PStr(PyStr(vt_arg.d["target"]))
            /\ ~VtGiven("target") =>
                   vt_obj.d["target"] = PNone /\ vt_obj.d["target"] # PStr("")
            /\ VtGiven("text") => vt_obj.d["text"] = PStr(PyStr(vt_arg.d["text"]))
            /\ ~VtGiven("text") => vt_obj.d["text"] = PStr("")

\* an accepted tool whose action had to be normalised, whose target was
\* missing and whose text was a number
C7_Witness ==
    /\ vt_pc = "done"
    /\ vt_ret
    /\ vt_arg.t = "dict"
    /\ HasKey(vt_arg.d, "text")
    /\ vt_arg.d["action"] = PStr(" Click ")
    /\ ~HasKey(vt_arg.d, "target")
    /\ vt_obj.d["target"] = PNone
    /\ vt_arg.d["text"] = PInt(MaxIntVal)
    /\ vt_obj.d["text"] = PStr(IntStr(MaxIntVal))

\* C8 as stated: the value passed to validate_tool is the same after the call
C8_NoSideEffects == vt_pc = "done" => vt_obj = vt_arg

\* C8 amended: a rejected value is left as it was; an accepted dict keeps every
\* other key and has exactly its action, target and text (over)written in place.
C8_WritesOnlyOnAccept ==
    vt_pc = "done" =>
        /\ ~vt_ret => vt_obj = vt_arg
        /\ vt_ret =>
            /\ vt_obj.t = "dict"
            /\ DOMAIN vt_obj.d = DOMAIN vt_arg.d \cup {"action", "target", "text"}
            /\ \A k \in DOMAIN vt_arg.d \ {"action", "target", "text"} :
                   vt_obj.d[k] = vt_arg.d[k]

\* an accepted call that changed the object it was given
C8_Witness ==
    /\ vt_pc = "done"
    /\ vt_ret
    /\ vt_obj # vt_arg
    /\ vt_arg.t = "dict"
    /\ HasKey(vt_arg.d, "role")
    /\ DOMAIN vt_obj.d # DOMAIN vt_arg.d

-----------------------------------------------------------------------------
(* Claims about parse_tool_json *)

C9_FirstBrace == FindFrom(pj_text, "{", 1)
C9_LastBrace == RFindFrom(pj_text, "}", Len(pj_text))

\* the candidates as the claim lists them: (1) the trimmed text, (2) the text
\* from the first { to the last }, (3) the text with ' replaced by ", (4) each
\* non-nested {...} substring in order of appearance
C9_Ordered ==
    <<Strip(pj_text)>>
    \o (IF C9_FirstBrace # 0 /\ C9_FirstBrace <= C9_LastBrace
        THEN <<SubSeq(pj_text, C9_FirstBrace, C9_LastBrace)>> ELSE <<>>)
    \o <<ReplaceChar(pj_text, "'", "\"")>>
    \o FindAllFlat(pj_text, 1)

\* candidate i parses as JSON and the validator accepts it
C9_Good(i) ==
    /\ JsonLoads(C9_Ordered[i]).ok
    /\ ValidateTool(JsonLoads(C9_Ordered[i]).v).ret

C9_Tool(i) == ValidateTool(JsonLoads(C9_Ordered[i]).v).obj

\* C9: parse_tool_json returns the tool of the first candidate, in the fixed
\* order, that parses as JSON and is accepted by the validator; candidates that
\* fail to parse or are rejected are passed over; it returns None exactly when
\* no candidate parses and validates, as for empty and whitespace-only text.
C9_FirstGoodCandidate ==
    pj_pc = "done" =>
        /\ (pj_ret = PNone) <=> ~\E i \in 1..Len(C9_Ordered) : C9_Good(i)
        /\ \A i \in 1..Len(C9_Ordered) :
               (C9_Good(i) /\ \A j \in 1..(i - 1) : ~C9_Good(j)) => pj_ret = C9_Tool(i)
        /\ Strip(pj_text) = "" => pj_ret = PNone

\* a tool returned from a flat {...} match after an earlier candidate parsed
\* and was rejected by the validator
C9_Witness ==
    /\ pj_pc = "done"
    /\ pj_ret # PNone
    /\ \E i \in 1..Len(C9_Ordered) :
          /\ C9_Good(i)
          /\ i > 3
          /\ \A j \in 1..(i - 1) : ~C9_Good(j)
          /\ \E j \in 1..(i - 1) : JsonLoads(C9_Ordered[j]).ok

-----------------------------------------------------------------------------
(* Claims about normalize_tool_with_snapshot *)

\* C10 as stated: whenever an internal error occurs during normalization, the
\* returned tool has exactly the action, target and text of the tool given
C10_UnmodifiedOnError == (nz_pc = "done" /\ nz_err) => nz_tool = nz_arg

\* the target of the tool given is the title of some node of the snapshot
NzTargetIsTitle ==
    \E i \in 1..Len(nz_snap) :
        /\ nz_snap[i].t = "dict"
        /\ HasKey(nz_snap[i].d, "title")
        /\ nz_snap[i].d["title"] = DictGet(nz_arg.d, "target")

\* C11 as stated: a tool whose target already equals the title of a snapshot
\* node is returned with the same target, and normalizing the returned tool
\* once more with the same snapshot and instruction leaves its target as it is
C11_Idempotent ==
    nz_pc = "done" =>
        /\ NzTargetIsTitle => DictGet(nz_tool.d, "target") = DictGet(nz_arg.d, "target")
        /\ DictGet(NormalizeTool(nz_tool, nz_snap, nz_ins).tool.d, "target")
              = DictGet(nz_tool.d, "target")

\* the tool given has action click, focus or type and a non-empty target
NzResolvable ==
    /\ Lower(OrElse(DictGet(nz_arg.d, "action"), PStr("")).s) \in {"click", "focus", "type"}
    /\ Truthy(DictGet(nz_arg.d, "target"))

\* the nodes of the snapshot whose id, as a string, is the target given
NzIdMatches ==
    { i \in 1..Len(nz_snap) :
        /\ nz_snap[i].t = "dict"
        /\ PyStr(DictGet(nz_snap[i].d, "id")) = PyStr(DictGet(nz_arg.d, "target")) }

\* the title of the first of them, absent titles being empty
NzFirstMatchTitle == DictGetDefault(nz_snap[Min(NzIdMatches)].d, "title", PStr(""))

\* C12 as stated: when a node's id, as a string, equals the target of a
\* click, focus or type tool, the target becomes the title of the first such
\* node if that title is not blank; an answer tool or one without target is
\* returned unchanged
C12_FirstIdMatchTitle ==
    nz_pc = "done" =>
        IF NzResolvable
        THEN (NzIdMatches # {} /\ Strip(PyStr(NzFirstMatchTitle)) # "") =>
                 DictGet(nz_tool.d, "target") = NzFirstMatchTitle
        ELSE nz_tool = nz_arg

\* C12, amended: when every node before the first id match is an object, the
\* target becomes the string form of that node's title without surrounding
\* whitespace if that is not empty; if it is empty no later node with the
\* same id is used, and the tool is returned unchanged when the instruction
\* is empty; an answer tool or one without target is returned unchanged
C12_FirstIdMatchTrimmed ==
    nz_pc = "done" =>
        IF NzResolvable
        THEN (/\ NzIdMatches # {}
              /\ \A j \in 1..(Min(NzIdMatches) - 1) : nz_snap[j].t = "dict") =>
                 IF Strip(PyStr(NzFirstMatchTitle)) # ""
                 THEN DictGet(nz_tool.d, "target") = PStr(Strip(PyStr(NzFirstMatchTitle)))
                 ELSE nz_ins = "" => nz_tool = nz_arg
        ELSE nz_tool = nz_arg

\* target 42 resolved to the title of the first of two nodes with that id
C12_Witness ==
    /\ nz_pc = "done"
    /\ NzResolvable
    /\ NzIdMatches = {1, 2}
    /\ DictGet(nz_arg.d, "target") = PStr("42")
    /\ DictGet(nz_tool.d, "target") = PStr("Save")

-----------------------------------------------------------------------------
(* Claims about plan_action *)

\* the model service failed: no connection, a timeout, a body that is not
\* text, not JSON, not an object, or an object without a string 'response'
PlServiceFailed ==
    \/ pl_outcome.kind \in {"urlerror", "undecodable"}
    \/ /\ pl_outcome.kind = "body"
       /\ LET p == JsonLoads(pl_outcome.text) IN
            \/ ~p.ok
            \/ p.v.t # "dict"
            \/ ~HasKey(p.v.d, "response")
            \/ p.v.d["response"].t # "str"

\* C2 as stated: once the model call of plan_action is over, every kind of
\* model-service failure has become (no tool, an error detail) and plan_action
\* is in its fallback chain; no exception has left it.
C2_FailureEntersFallback ==
    (pl_trace = <<"query">> /\ PlServiceFailed) =>
        /\ pl_raised = ""
        /\ pl_pc = "heuristic"
        /\ pl_tool = PNone
        /\ pl_err.t = "str" /\ pl_err.s # ""

\* the echo text for the call's instruction and failure detail
PlEchoText ==
    IF pl_err.t = "str" /\ pl_err.s # ""
    THEN "Echo: " \o pl_ins \o " (AI offline: " \o pl_err.s \o ")"
    ELSE "Echo: " \o pl_ins

\* C3: the heuristic planner runs only as the second stage, after a failed
\* model call or extraction; the echo fallback only as the third, after the
\* heuristic planner returned None.  The result's tool is the heuristic tool
\* when there is one, else the echo tool {answer, None, "Echo: ..."} with the
\* failure detail appended; when the model call and the extraction succeed,
\* neither of the two runs and the tool is the model's, normalized.
C3_FallbackOrder ==
    /\ pl_trace # <<>> => pl_trace[1] = "query"
    /\ \A i \in DOMAIN pl_trace :
          /\ pl_trace[i] = "heuristic" =>
                i = 2 /\ pl_tool = PNone /\ pl_err # PNone /\ pl_raised \in {"", "AttributeError"}
          /\ pl_trace[i] = "fallback" =>
                i = 3 /\ pl_trace[2] = "heuristic" /\ pl_heur = PNone
                /\ HeuristicTool(pl_ins, pl_snap).v = PNone
          /\ pl_trace[i] = "normalize" => i = 2 /\ pl_tool # PNone
    /\ pl_pc = "done" =>
          IF pl_tool # PNone
          THEN /\ pl_trace = <<"query", "normalize">>
               /\ pl_result.d["tool"] = NormalizeTool(pl_tool, pl_snap, pl_ins).tool
          ELSE IF pl_heur # PNone
          THEN /\ pl_trace = <<"query", "heuristic">>
               /\ pl_heur = HeuristicTool(pl_ins, pl_snap).v
               /\ pl_result.d["tool"] = pl_heur
          ELSE /\ pl_trace = <<"query", "heuristic", "fallback">>
               /\ pl_result.d["tool"] =
                      PDict([action |-> PStr("answer"), target |-> PNone,
                             text |-> PStr(PlEchoText)])

\* a call that went through all three stages and returned the echo tool
C3_Witness ==
    /\ pl_pc = "done"
    /\ pl_trace = <<"query", "heuristic", "fallback">>
    /\ pl_outcome.kind = "body"
    /\ pl_result.d["tool"].d["action"] = PStr("answer")

\* C4's case: the model service is unreachable, no heuristic rule matched,
\* plan_action has returned
C4_Case ==
    /\ pl_pc = "done"
    /\ pl_outcome.kind = "urlerror"
    /\ pl_trace = <<"query", "heuristic", "fallback">>

\* the failure detail D of an unreachable model service
C4_Detail == "Ollama connection error: " \o pl_outcome.exc

C4_Echo == "Echo: " \o pl_ins \o " (AI offline: " \o C4_Detail \o ")"

\* C4 as stated: the PlanResult's response field is exactly
\* "Echo: {instruction} (AI offline: D)" and its tool's action is answer
C4_EchoResponse ==
    C4_Case =>
        /\ pl_result.d["response"] = PStr(C4_Echo)
        /\ pl_result.d["tool"].d["action"] = PStr("answer")

\* C4 amended: the PlanResult's tool is {answer, None, text} with text exactly
\* "Echo: {instruction} (AI offline: D)", and its response field is the fixed
\* string "Fallback response generated"
C4_EchoToolText ==
    C4_Case =>
        /\ pl_result.d["tool"].d["text"] = PStr(C4_Echo)
        /\ pl_result.d["tool"].d["action"] = PStr("answer")
        /\ pl_result.d["tool"].d["target"] = PNone
        /\ pl_result.d["response"] = PStr("Fallback response generated")

\* "open settings" with the connection refused
C4_Witness ==
    /\ C4_Case
    /\ pl_ins = "open settings"
    /\ pl_result.d["tool"].d["text"] =
          PStr("Echo: open settings (AI offline: Ollama connection error: <urlopen error [Errno 111] Connection refused>)")

\* heuristic_tool has been called and is back
PlHeuristicRan == Len(pl_trace) >= 2 /\ pl_trace[2] = "heuristic"

\* the rule that the priority order of C13 picks for the instruction ins:
\* the action of the rule, "none" when no rule matches
C13_Rule(ins) ==
    IF StartsWith(Lower(ins), "click ") \/ StartsWith(Lower(ins), "press ") THEN "click"
    ELSE IF StartsWith(Lower(ins), "focus ") THEN "focus"
    ELSE IF \/ StartsWith(Lower(ins), "type ")
            \/ StartsWith(Lower(ins), "enter ")
            \/ StartsWith(Lower(ins), "input ") THEN "type"
    ELSE IF \E q \in {"what's on my screen", "what is on my screen", "help", "how do i"} :
               Contains(Lower(ins), q) THEN "answer"
    ELSE "none"

\* what heuristic_tool returned is the tool of the rule named
C13_Gives(rule) ==
    /\ pl_raised = ""
    /\ IF rule = "none" THEN pl_heur = PNone
       ELSE /\ pl_heur.t = "dict"
            /\ DictGet(pl_heur.d, "action") = PStr(rule)
            /\ rule = "answer" => DictGet(pl_heur.d, "target") = PNone

\* "Click Save" with an empty snapshot yields {click, "Save", ""}
C13_ClickSave ==
    (pl_ins = "Click Save" /\ pl_snap = <<>>) =>
        pl_heur = PDict([action |-> PStr("click"), target |-> PStr("Save"),
                         text |-> PStr("")])

\* C13 as stated: heuristic_tool gives the tool of the first rule, in the
\* order click/press, focus, type/enter/input, help phrase, that the
\* instruction matches, and none when it matches no rule
C13_CascadeOnInstruction ==
    PlHeuristicRan => C13_Gives(C13_Rule(pl_ins)) /\ C13_ClickSave

\* C13, amended: the rules are matched against the instruction without its
\* surrounding whitespace; a click, focus or type rule gives its tool unless
\* title matching reaches a snapshot node that is not an object, which makes
\* heuristic_tool raise AttributeError; the help rule and the no-rule case
\* never raise
C13_CascadeOnTrimmed ==
    PlHeuristicRan =>
        /\ \/ C13_Gives(C13_Rule(Strip(pl_ins)))
           \/ /\ C13_Rule(Strip(pl_ins)) \in {"click", "focus", "type"}
              /\ \E i \in 1..Len(pl_snap) : pl_snap[i].t # "dict"
              /\ pl_raised = "AttributeError"
        /\ (\A i \in 1..Len(pl_snap) : pl_snap[i].t = "dict") => pl_raised = ""
        /\ C13_ClickSave

\* "click help" matches a verb rule and a help phrase and is given the click tool
C13_Witness ==
    /\ PlHeuristicRan
    /\ pl_ins = "click help"
    /\ pl_heur.t = "dict"
    /\ DictGet(pl_heur.d, "action") = PStr("click")

-----------------------------------------------------------------------------
(* Claims about the server *)

\* thread t has answered a POST /command whose payload is a JSON object with
\* an instruction that is a non-blank string
CommandServed(t) ==
    /\ pc[t] = "done"
    /\ req[t].path = "/command"
    /\ req[t].length = "ok"
    /\ req[t].payload.t = "dict"
    /\ ValidInstruction(DictGet(req[t].payload.d, "instruction"))

\* v is a tool object {action, target, text}
IsToolObject(v) ==
    v.t = "dict" /\ HasKey(v.d, "action") /\ HasKey(v.d, "target") /\ HasKey(v.d, "text")

\* C1: every POST /command with a non-empty instruction string is answered,
\* whatever the model service did, with status 200 and a body that carries a
\* response string and a tool object {action, target, text}
C1_AlwaysToolResult ==
    \A t \in Threads :
        CommandServed(t) =>
            /\ reply[t].status = 200
            /\ reply[t].body.t = "dict"
            /\ HasKey(reply[t].body.d, "response")
            /\ reply[t].body.d["response"].t = "str"
            /\ HasKey(reply[t].body.d, "tool")
            /\ IsToolObject(reply[t].body.d["tool"])

\* thread t is through with a POST /command whose body is JSON but carries
\* no instruction that is a non-blank string
CommandUnserved(t) ==
    /\ pc[t] = "done"
    /\ req[t].path = "/command"
    /\ req[t].length = "ok"
    /\ req[t].payload # BadJson
    /\ \/ req[t].payload.t # "dict"
       \/ ~ValidInstruction(DictGet(req[t].payload.d, "instruction"))

\* C5: a POST /command whose JSON payload has no instruction, or one that is
\* no string, or a blank one, is answered with status 400 and the model
\* service is not called for it (the step that rejects it leaves the
\* settings as they are)
C5_RejectedWith400 ==
    \A t \in Threads :
        CommandUnserved(t) => reply[t].status = 400 /\ sent[t] = NoCall

\* the model name a /settings payload supplies: a string that is not empty
SuppliesModel(payload) ==
    /\ payload.t = "dict"
    /\ HasKey(payload.d, "ollama_model")
    /\ payload.d["ollama_model"].t = "str"
    /\ payload.d["ollama_model"].s # ""

\* thread t has answered a POST /settings that supplied a model name with ok
SettingsServed(t) ==
    /\ pc[t] = "done"
    /\ req[t].path = "/settings"
    /\ req[t].length = "ok"
    /\ reply[t].status = 200
    /\ SuppliesModel(req[t].payload)

\* C6 as stated: the ok reply to a POST /settings that supplies a non-empty
\* model name M reports ollama_model = M
C6_ReplyReportsSupplied ==
    \A t \in Threads :
        SettingsServed(t) =>
            reply[t].body.d["ollama_model"] = req[t].payload.d["ollama_model"]

\* the per-call model override of the request r, "" when it has none
OverrideOf(r) ==
    IF r.path = "plan_action"
    THEN (IF r.model_override.t = "str" THEN r.model_override.s ELSE "")
    ELSE IF HasKey(r.payload.d, "model") /\ r.payload.d["model"].t = "str"
    THEN Strip(r.payload.d["model"].s)
    ELSE ""

\* one step of thread t, for C6
C6_Step(t) ==
    \* the update writes the trimmed name, and nothing when that is empty
    /\ (pc[t] = "s_model" /\ pc'[t] = "s_reply") =>
          server_state'.ollama_model =
              IF SuppliesModel(req[t].payload)
                 /\ Strip(req[t].payload.d["ollama_model"].s) # ""
              THEN Strip(req[t].payload.d["ollama_model"].s)
              ELSE server_state.ollama_model
    \* the ok reply reports the name the settings hold when it is built
    /\ (pc[t] = "s_reply" /\ pc'[t] = "done" /\ reply'[t].status = 200) =>
          /\ reply'[t].body.d["status"] = PStr("ok")
          /\ reply'[t].body.d["ollama_model"] = PStr(server_state.ollama_model)
    \* a call reads the name the settings hold when it starts
    /\ (pc[t] = "idle" /\ pc'[t] \in {"g_url", "q_url"}) =>
          loc'[t].model = IF OverrideOf(req'[t]) # "" THEN OverrideOf(req'[t])
                          ELSE server_state.ollama_model
    \* and that name is the one it sends
    /\ (pc[t] \in {"g_call", "q_call"} /\ pc'[t] = "done") =>
          sent'[t].model = loc[t].model

\* C6, amended: a POST /settings that supplies a model name stores its
\* trimmed form M when that is not empty; the ok reply reports the name the
\* settings hold when the reply is built; only the model write of a settings
\* update changes the name; and every planning call without a per-call
\* override sends the name that the settings hold when the call starts
C6_ReadsSettingsAtStart ==
    [][ /\ \A t \in Threads : C6_Step(t)
        /\ server_state'.ollama_model # server_state.ollama_model =>
              \E t \in Threads : pc[t] = "s_model" /\ pc'[t] = "s_reply" ]_vars

\* a settings update to m1 has been answered ok, reporting m1, and a call
\* without override has sent m1 to the model service
C6_Witness ==
    \E t, u \in Threads :
        /\ SettingsServed(t)
        /\ reply[t].body.d["ollama_model"] = PStr("m1")
        /\ pc[u] = "done"
        /\ req[u].path \in {"/command", "plan_action"}
        /\ sent[u] # NoCall
        /\ sent[u].model = "m1"

\* C14: a call to the model service that runs concurrently with one
\* POST /settings update changing both the url and the model sends a
\* consistent pair, the two old values or the two new values, never the old
\* model to the new url or the new model to the old url (the call has no
\* model override, so its model name comes from server_state)
C14_ConsistentPair ==
    (pc[2] = "done" /\ OverrideOf(req[2]) = "") =>
        \/ sent[2] = [model |-> DEFAULT_OLLAMA_MODEL, url |-> DEFAULT_OLLAMA_URL]
        \/ sent[2] = [model |-> "m1", url |-> "http://b"]

=============================================================================
